---- MODULE Spec2Model ----
(***************************************************************************)
(* Model of segmentationstitcher.stitcher.Stitcher: the annotation catalog *)
(* built by the constructor, the connection list, and the settings codec   *)
(* (encode_settings / decode_settings).                                    *)
(*                                                                         *)
(* Segments, annotations and connections are Python objects; here a        *)
(* segment is referred to by its index in self._segments, an annotation by *)
(* its index in self._annotations.  Names (strings compared with > and ==) *)
(* are small integers with the same total order.                           *)
(***************************************************************************)
EXTENDS Integers, Sequences, FiniteSets, TLC

VARIABLES pc, segments, annotations, connections, op, args, ret, raised, output, calls

vars == <<pc, segments, annotations, connections, op, args, ret, raised, output, calls>>

(* ---------------------------- bounds ----------------------------------- *)
MaxSegments == 2
MaxDiscovered == 2
MaxName == 2
MaxTerm == 2
MaxSegName == 2
MaxTranslation == 1
MaxSaved == 2
MaxSavedConnections == 2

Names == 1..MaxName
Terms == 1..MaxTerm
SegNames == 1..MaxSegName
Translations == 0..MaxTranslation

(* ------------------------- generic helpers ----------------------------- *)
Range(s) == {s[i] : i \in DOMAIN s}

SeqsUpTo(S, n) == UNION {[1..k -> S] : k \in 0..n}

NonEmptySeqsUpTo(S, n) == UNION {[1..k -> S] : k \in 1..n}

InsertAt(s, i, e) == SubSeq(s, 1, i) \o <<e>> \o SubSeq(s, i + 1, Len(s))

(* removal of the last element whatever i is, as list.pop() does *)
RemoveLast(s, i) == SubSeq(s, 1, Len(s) - 1)

RemoveAt(s, i) == SubSeq(s, 1, i - 1) \o SubSeq(s, i + 1, Len(s))

(* the least index in a set of indices, 0 when there is none: where a      *)
(* Python "for x in s: if test(x): ...; break" stops, or its else branch   *)
FirstOf(indices) ==
    IF indices = {} THEN 0 ELSE CHOOSE i \in indices : \A j \in indices : i <= j

(* ------------------------ annotation categories ------------------------ *)
CategoryNames ==
    <<"CONNECTED_SIMPLE_NETWORK", "CONNECTED_COMPLEX_NETWORK", "UNCONNECTED_GENERAL", "EXCLUDE">>

Categories == DOMAIN CategoryNames

(* AnnotationCategory.<member>.name and AnnotationCategory[<name>] *)
CategoryName(c) == CategoryNames[c]

CategoryFromName(n) == CHOOSE c \in Categories : CategoryNames[c] = n

CONNECTED_SIMPLE_NETWORK == CategoryFromName("CONNECTED_SIMPLE_NETWORK")
CONNECTED_COMPLEX_NETWORK == CategoryFromName("CONNECTED_COMPLEX_NETWORK")
UNCONNECTED_GENERAL == CategoryFromName("UNCONNECTED_GENERAL")
EXCLUDE == CategoryFromName("EXCLUDE")

(* names matched by the network group 1 / group 2 keyword lists *)
NetworkGroup1Names == {1}
NetworkGroup2Names == {3}

(* region_get_annotations: the category suggested for a discovered name *)
SuggestedCategory(name) ==
    IF name \in NetworkGroup1Names THEN CONNECTED_SIMPLE_NETWORK
    ELSE IF name \in NetworkGroup2Names THEN CONNECTED_COMPLEX_NETWORK
    ELSE UNCONNECTED_GENERAL

(* ------------------------------ objects -------------------------------- *)
(* Segment(name, file_name, root_region): zero translation; raw is what    *)
(* region_get_annotations finds in its raw region, in discovery order;     *)
(* groups is the category group each of its annotations is a member of     *)
Segment(name) == [name |-> name, translation |-> 0, raw |-> <<>>, groups |-> {}]

(* an annotation as region_get_annotations returns it: no callback yet *)
Annotation(name, term) ==
    [name |-> name, term |-> term, category |-> SuggestedCategory(name), callback |-> FALSE]

(* Connection(segments, root_region): keeps the list it was given *)
Connection(segs) == [segments |-> segs]

(* ------------------------ catalog construction ------------------------- *)
(* the inner loop of __init__: position at which a new (name, term) is     *)
(* inserted, or 0 when the catalog already has that (name, term)           *)
(* the lookup as it would be if it compared names only *)
HasAnnotationNamed(catalog, name, term) ==
    \E i \in DOMAIN catalog : catalog[i].name = name

HasAnnotation(catalog, name, term) ==
    \E i \in DOMAIN catalog : catalog[i].name = name /\ catalog[i].term = term

(* the count as it would be with the comparison the other way round *)
InsertIndexReversed(catalog, name) ==
    Cardinality({i \in DOMAIN catalog : name < catalog[i].name})

(* the count as it would be with >= for > *)
InsertIndexAfterEqual(catalog, name) ==
    Cardinality({i \in DOMAIN catalog : name >= catalog[i].name})

InsertIndex(catalog, name) ==
    Cardinality({i \in DOMAIN catalog : name > catalog[i].name})

InsertAnnotation(catalog, name, term) ==
    IF HasAnnotation(catalog, name, term)
    THEN catalog
    ELSE InsertAt(catalog, InsertIndex(catalog, name), Annotation(name, term))

(* --------------------------- create_connection ------------------------- *)
(* len(segments) != 2 in create_connection *)
ConnectionArity == 2

MsgOnlyTwo == <<"Only supports connections between 2 segments">>
MsgAlready == <<"Stitcher.create_connection:  Already have a connection between segments">>

(* the check as it would be if it compared the lists in order *)
AlreadyConnectedInOrder(conns, segs) ==
    \E c \in DOMAIN conns : conns[c].segments = segs

AlreadyConnected(conns, segs) ==
    \E c \in DOMAIN conns : \A k \in DOMAIN segs : segs[k] \in Range(conns[c].segments)

(* create_connection as it would be without the test of len(segments) *)
CreateConnectionAnyCount(conns, segs) ==
    IF AlreadyConnected(conns, segs)
    THEN [connections |-> conns, ret |-> 0, output |-> <<MsgAlready>>]
    ELSE [connections |-> Append(conns, Connection(segs)), ret |-> Len(conns) + 1,
          output |-> <<>>]

(* result of create_connection: the new list, the returned connection      *)
(* (its position in the list, 0 for None) and what was printed             *)
CreateConnection(conns, segs) ==
    IF Len(segs) # ConnectionArity
    THEN [connections |-> conns, ret |-> 0, output |-> <<MsgOnlyTwo>>]
    ELSE IF AlreadyConnected(conns, segs)
    THEN [connections |-> conns, ret |-> 0, output |-> <<MsgAlready>>]
    ELSE [connections |-> Append(conns, Connection(segs)), ret |-> Len(conns) + 1,
          output |-> <<>>]

(* ------------------------ category group batches ----------------------- *)
(* Segment.reset_annotation_category_groups(annotations): every annotation *)
(* the segment holds is put in the group of its current category           *)
ResetGroups(seg, catalog) ==
    [seg EXCEPT !.groups =
        {<<catalog[i].name, catalog[i].term, catalog[i].category>> :
            i \in {j \in DOMAIN catalog : <<catalog[j].name, catalog[j].term>> \in Range(seg.raw)}}]

(* Segment.update_annotation_category(annotation, old_category): the       *)
(* annotation, if the segment holds it, leaves the old category's group    *)
(* and joins the group of its current category                             *)
UpdateGroup(seg, a, old) ==
    IF <<a.name, a.term>> \in Range(seg.raw)
    THEN [seg EXCEPT !.groups = (@ \ {<<a.name, a.term, old>>}) \cup {<<a.name, a.term, a.category>>}]
    ELSE seg

(* the exception a call into the region raises, when one does *)
RegionError == "RegionError"

(* begin ... end without the close on the way out of an exception *)
ChangeScopeLeaky(events, fail) ==
    IF fail = 0 THEN <<<<"begin">>>> \o events \o <<<<"end">>>> ELSE <<<<"begin">>>> \o events

(* with HierarchicalChangeManager(self._root_region): <calls>              *)
(* the scope is opened, the calls are made and the scope is closed,        *)
(* whether a call raised (fail # 0) or not                                 *)
ChangeScope(events, fail) == <<<<"begin">>>> \o events \o <<<<"end">>>>

(* calls made and calls completed by a loop over n segments in which call  *)
(* number fail raises (0: none does)                                       *)
CallsMade(n, fail) == IF fail = 0 THEN n ELSE fail

CallsDone(n, fail) == IF fail = 0 THEN n ELSE fail - 1

(* with ...: for segment in self._segments:                                *)
(*     segment.reset_annotation_category_groups(self._annotations)         *)
ResetAll(segs, catalog, fail) ==
    [segments |-> [i \in DOMAIN segs |->
                      IF i <= CallsDone(Len(segs), fail) THEN ResetGroups(segs[i], catalog)
                      ELSE segs[i]],
     calls |-> ChangeScope([i \in 1..CallsMade(Len(segs), fail) |-> <<"reset", i>>], fail),
     raised |-> IF fail = 0 THEN "none" ELSE RegionError]

(* the handler as it would be if it handed on the annotation's current     *)
(* category in place of the old one                                        *)
AnnotationChangeCurrent(segs, catalog, a, old, fail) ==
    [segments |-> [i \in DOMAIN segs |->
                      IF i <= CallsDone(Len(segs), fail)
                      THEN UpdateGroup(segs[i], catalog[a], catalog[a].category)
                      ELSE segs[i]],
     calls |-> ChangeScope([i \in 1..CallsMade(Len(segs), fail) |->
                               <<"update", i, a, catalog[a].category>>], fail),
     raised |-> IF fail = 0 THEN "none" ELSE RegionError]

(* _annotation_change(annotation, old_category); a is the annotation's     *)
(* index in the catalog                                                    *)
AnnotationChange(segs, catalog, a, old, fail) ==
    [segments |-> [i \in DOMAIN segs |->
                      IF i <= CallsDone(Len(segs), fail) THEN UpdateGroup(segs[i], catalog[a], old)
                      ELSE segs[i]],
     calls |-> ChangeScope([i \in 1..CallsMade(Len(segs), fail) |-> <<"update", i, a, old>>], fail),
     raised |-> IF fail = 0 THEN "none" ELSE RegionError]

(* for annotation in self._annotations:                                    *)
(*     annotation.set_category_change_callback(self._annotation_change)    *)
RegisterCallbacks(catalog) == [i \in DOMAIN catalog |-> [catalog[i] EXCEPT !.callback = TRUE]]

(* ---------------------------- settings codec ---------------------------- *)
(* self._version *)
Version == 1

SettingsKeys == {"annotations", "connections", "segments", "version"}

(* Annotation.encode_settings, Segment.encode_settings,                    *)
(* Connection.encode_settings: plain records keyed by name                 *)
EncodeAnnotation(a) == [name |-> a.name, term |-> a.term, category |-> CategoryName(a.category)]

EncodeSegment(s) == [name |-> s.name, translation |-> s.translation]

EncodeConnection(c, segs) ==
    [segments |-> [k \in DOMAIN c.segments |-> segs[c.segments[k]].name]]

(* the encoding with the annotation records in reverse catalog order *)
EncodeSettingsReversed(segs, anns, conns) ==
    [keys |-> SettingsKeys,
     annotations |-> [i \in DOMAIN anns |-> EncodeAnnotation(anns[Len(anns) + 1 - i])],
     connections |-> [i \in DOMAIN conns |-> EncodeConnection(conns[i], segs)],
     segments |-> [i \in DOMAIN segs |-> EncodeSegment(segs[i])],
     version |-> Version]

EncodeSettings(segs, anns, conns) ==
    [keys |-> SettingsKeys,
     annotations |-> [i \in DOMAIN anns |-> EncodeAnnotation(anns[i])],
     connections |-> [i \in DOMAIN conns |-> EncodeConnection(conns[i], segs)],
     segments |-> [i \in DOMAIN segs |-> EncodeSegment(segs[i])],
     version |-> Version]

(* settings_in.get(key) is truthy: the key is there and its value is       *)
(* neither an empty list nor 0                                             *)
Truthy(s, key) ==
    /\ key \in s.keys
    /\ IF key = "version" THEN s.version # 0 ELSE s[key] # <<>>

(* the assertion as it would be without its version operand *)
ValidSettingsNoVersion(s) == Truthy(s, "annotations") /\ Truthy(s, "segments")

ValidSettings(s) == Truthy(s, "annotations") /\ Truthy(s, "segments") /\ Truthy(s, "version")

(* Annotation.decode_settings: the saved category name becomes the category *)
DecodeAnnotation(a, rec) == [a EXCEPT !.category = CategoryFromName(rec.category)]

(* Segment.decode_settings: the saved translation becomes the translation *)
DecodeSegment(s, rec) == [s EXCEPT !.translation = rec.translation]

(* the comparison as it would be without the term *)
MatchesAnnotationName(a, rec) == a.name = rec.name

MatchesAnnotation(a, rec) == a.name = rec.name /\ a.term = rec.term

MatchesSegment(s, rec) == s.name = rec.name

(* for annotation in self._annotations: if <matches>: ... break *)
FirstAnnotation(anns, rec) == FirstOf({i \in DOMAIN anns : MatchesAnnotation(anns[i], rec)})

(* the lookup as it would be without the break: the last segment of that   *)
(* name, 0 when there is none                                              *)
LastSegment(segs, name) ==
    IF \A i \in DOMAIN segs : segs[i].name # name THEN 0
    ELSE CHOOSE i \in DOMAIN segs :
             segs[i].name = name /\ \A j \in DOMAIN segs : segs[j].name = name => j <= i

(* for segment in self._segments: if segment.get_name() == name: ... break *)
FirstSegment(segs, name) == FirstOf({i \in DOMAIN segs : segs[i].name = name})

(* first loop over settings_in["annotations"], records 1..k *)
RECURSIVE MergeAnnotations(_, _, _)
MergeAnnotations(anns, saved, k) ==
    IF k = 0
    THEN [annotations |-> anns, processed |-> 0, output |-> <<>>]
    ELSE LET prev == MergeAnnotations(anns, saved, k - 1)
             rec == saved[k]
             i == FirstAnnotation(prev.annotations, rec)
         IN IF i # 0
            THEN [annotations |-> [prev.annotations EXCEPT ![i] = DecodeAnnotation(@, rec)],
                  processed |-> prev.processed + 1,
                  output |-> prev.output]
            ELSE [prev EXCEPT !.output =
                      Append(@, <<"annotation in settings not found; ignoring", rec.name, rec.term>>)]

(* second loop: live annotations no saved record names *)
UnmatchedAnnotations(anns, saved) ==
    LET un == SelectSeq(anns, LAMBDA a : \A k \in DOMAIN saved : ~MatchesAnnotation(a, saved[k]))
    IN [i \in DOMAIN un |->
           <<"annotation not found in settings; using defaults", un[i].name, un[i].term>>]

(* the merge as it would be if it kept only the annotations a saved record *)
(* names                                                                   *)
DecodeAnnotationsDropping(anns, saved) ==
    LET m == MergeAnnotations(anns, saved, Len(saved))
    IN [annotations |-> SelectSeq(m.annotations,
                           LAMBDA a : \E k \in DOMAIN saved : MatchesAnnotation(a, saved[k])),
        output |-> m.output]

DecodeAnnotations(anns, saved) ==
    LET m == MergeAnnotations(anns, saved, Len(saved))
    IN [annotations |-> m.annotations,
        output |-> IF m.processed # Len(anns)
                   THEN m.output \o UnmatchedAnnotations(anns, saved)
                   ELSE m.output]

(* first loop over settings_in["segments"], records 1..k *)
RECURSIVE MergeSegments(_, _, _)
MergeSegments(segs, saved, k) ==
    IF k = 0
    THEN [segments |-> segs, processed |-> 0, output |-> <<>>]
    ELSE LET prev == MergeSegments(segs, saved, k - 1)
             rec == saved[k]
             i == FirstSegment(prev.segments, rec.name)
         IN IF i # 0
            THEN [segments |-> [prev.segments EXCEPT ![i] = DecodeSegment(@, rec)],
                  processed |-> prev.processed + 1,
                  output |-> prev.output]
            ELSE [prev EXCEPT !.output =
                      Append(@, <<"segment in settings not found; ignoring", rec.name>>)]

UnmatchedSegments(segs, saved) ==
    LET un == SelectSeq(segs, LAMBDA s : \A k \in DOMAIN saved : ~MatchesSegment(s, saved[k]))
    IN [i \in DOMAIN un |-> <<"segment not found in settings; using defaults", un[i].name>>]

DecodeSegments(segs, saved) ==
    LET m == MergeSegments(segs, saved, Len(saved))
    IN [segments |-> m.segments,
        output |-> IF m.processed # Len(segs)
                   THEN m.output \o UnmatchedSegments(segs, saved)
                   ELSE m.output]

(* the loop over connection_settings["segments"], names 1..k: the live     *)
(* segments found, in order, and the warnings for the names not found      *)
RECURSIVE ResolveSegments(_, _, _)
ResolveSegments(segs, names, k) ==
    IF k = 0
    THEN [found |-> <<>>, output |-> <<>>]
    ELSE LET prev == ResolveSegments(segs, names, k - 1)
             i == FirstSegment(segs, names[k])
         IN IF i # 0
            THEN [prev EXCEPT !.found = Append(@, i)]
            ELSE [prev EXCEPT !.output =
                      Append(@, <<"segment in connection settings not found; ignoring", names[k]>>)]

(* the loop over settings_in["connections"], records 1..k.  A None from    *)
(* create_connection makes connection.decode_settings raise AttributeError *)
RECURSIVE DecodeConnections(_, _, _, _)
DecodeConnections(segs, conns, saved, k) ==
    IF k = 0
    THEN [connections |-> conns, raised |-> "none", output |-> <<>>]
    ELSE LET prev == DecodeConnections(segs, conns, saved, k - 1)
             r == ResolveSegments(segs, saved[k].segments, Len(saved[k].segments))
             c == CreateConnection(prev.connections, r.found)
         IN IF prev.raised # "none"
            THEN prev
            ELSE IF Len(r.found) >= ConnectionArity
            THEN [connections |-> c.connections,
                  raised |-> IF c.ret = 0 THEN "AttributeError" ELSE "none",
                  output |-> prev.output \o r.output \o c.output]
            ELSE [prev EXCEPT !.output = @ \o r.output]

(* the assertion as it would be if it were off by one *)
AtMostOneConnection(conns) == Len(conns) <= 1

(* assert len(self._connections) == 0 *)
NoConnections(conns) == Len(conns) = 0

(* decode_settings up to the end of the group reset: saved annotation and  *)
(* segment settings merged, every segment's groups recomputed in one scope *)
MergeSettings(segs, anns, conns, s, fail) ==
    LET a == DecodeAnnotations(anns, s.annotations)
        g == DecodeSegments(segs, s.segments)
        r == ResetAll(g.segments, a.annotations, fail)
    IN [segments |-> r.segments, annotations |-> a.annotations, connections |-> conns,
        raised |-> r.raised, output |-> a.output \o g.output, calls |-> r.calls]

(* decode_settings as it would be with the assertion on the connections    *)
(* next to the one on the settings, before anything is merged              *)
DecodeSettingsCheckFirst(segs, anns, conns, s, fail) ==
    IF ~ValidSettings(s) \/ ~NoConnections(conns)
    THEN [segments |-> segs, annotations |-> anns, connections |-> conns,
          raised |-> "AssertionError", output |-> <<>>, calls |-> <<>>]
    ELSE LET merged == MergeSettings(segs, anns, conns, s, fail)
         IN IF merged.raised # "none"
            THEN merged
            ELSE IF "connections" \notin s.keys
            THEN [merged EXCEPT !.raised = "KeyError"]
            ELSE LET c == DecodeConnections(merged.segments, conns, s.connections,
                                            Len(s.connections))
                 IN [merged EXCEPT !.connections = c.connections,
                                   !.raised = c.raised,
                                   !.output = @ \o c.output]

(* decode_settings as a function of the Stitcher it is called on; fail is  *)
(* the reset that raises, 0 when none does                                 *)
DecodeSettings(segs, anns, conns, s, fail) ==
    IF ~ValidSettings(s)
    THEN [segments |-> segs, annotations |-> anns, connections |-> conns,
          raised |-> "AssertionError", output |-> <<>>, calls |-> <<>>]
    ELSE LET merged == MergeSettings(segs, anns, conns, s, fail)
         IN IF merged.raised # "none"
            THEN merged
            ELSE IF ~NoConnections(conns)
            THEN [merged EXCEPT !.raised = "AssertionError"]
            ELSE IF "connections" \notin s.keys
            THEN [merged EXCEPT !.raised = "KeyError"]
            ELSE LET c == DecodeConnections(merged.segments, conns, s.connections,
                                            Len(s.connections))
                 IN [merged EXCEPT !.connections = c.connections,
                                   !.raised = c.raised,
                                   !.output = @ \o c.output]

(* ------------------------------ __init__ ------------------------------- *)
(* the catalog after the annotations raw[1..k] of one segment are merged *)
RECURSIVE InsertAll(_, _, _)
InsertAll(catalog, raw, k) ==
    IF k = 0
    THEN catalog
    ELSE InsertAnnotation(InsertAll(catalog, raw, k - 1), raw[k][1], raw[k][2])

(* Stitcher(files): segments and catalog after the files 1..k; a file is   *)
(* its stem and the annotations region_get_annotations finds in it         *)
RECURSIVE Construct(_, _)
Construct(files, k) ==
    IF k = 0
    THEN [segments |-> <<>>, annotations |-> <<>>]
    ELSE LET prev == Construct(files, k - 1)
         IN [segments |-> Append(prev.segments, [Segment(files[k].name) EXCEPT !.raw = files[k].raw]),
             annotations |-> InsertAll(prev.annotations, files[k].raw, Len(files[k].raw))]

(* Stitcher(files) when no call into the region raises *)
Stitcher(files) ==
    LET built == Construct(files, Len(files))
    IN [segments |-> ResetAll(built.segments, built.annotations, 0).segments,
        annotations |-> RegisterCallbacks(built.annotations)]

(* ------------------------------ inputs --------------------------------- *)
(* the input files of the Stitchers the operations are run on: any stems   *)
(* (equal stems included), each file annotated with the same structures    *)
FileAnnotations == <<<<MaxName, 1>>, <<1, 1>>>>

InitialFiles == NonEmptySeqsUpTo([name : SegNames, raw : {FileAnnotations}], MaxSegments)

(* categories the user picks and saved settings hold *)
EditCategories == {EXCLUDE}

SavedAnnotationRecords ==
    [name : Names, term : Terms, category : {CategoryName(c) : c \in EditCategories}]

SavedSegmentRecords == [name : SegNames, translation : Translations]

SavedConnectionRecords ==
    [segments : UNION {[1..k -> SegNames] : k \in ConnectionArity..(ConnectionArity + 1)}]

(* saved settings in which every category and translation was edited *)
Edited(base) ==
    [base EXCEPT !.annotations = [i \in DOMAIN @ |-> [@[i] EXCEPT !.category = CategoryName(EXCLUDE)]],
                 !.segments = [i \in DOMAIN @ |-> [@[i] EXCEPT !.translation = MaxTranslation]]]

(* settings handed to decode_settings: what encode_settings gives for the  *)
(* Stitcher, as it is or edited, with one part replaced (edited or         *)
(* drifted), or with a key dropped or the version zeroed                   *)
SettingsInputs(base) ==
    {base, Edited(base)}
    \cup {[base EXCEPT !.annotations = l] : l \in SeqsUpTo(SavedAnnotationRecords, MaxSaved)}
    \cup {[base EXCEPT !.segments = l] : l \in SeqsUpTo(SavedSegmentRecords, MaxSaved)}
    \cup {[base EXCEPT !.connections = l] :
              l \in SeqsUpTo(SavedConnectionRecords, MaxSavedConnections)}
    \cup {[Edited(base) EXCEPT !.keys = @ \ {k}] : k \in SettingsKeys}
    \cup {[Edited(base) EXCEPT !.version = 0]}

(* ------------------------------ actions -------------------------------- *)
NoCall ==
    /\ op = "none"
    /\ args = <<>>
    /\ ret = 0
    /\ raised = "none"
    /\ output = <<>>
    /\ calls = <<>>

(* a Stitcher just constructed over some input files *)
Init ==
    /\ pc = "ready"
    /\ \E files \in InitialFiles :
          LET st == Stitcher(files)
          IN /\ segments = st.segments
             /\ annotations = st.annotations
    /\ connections = <<>>
    /\ NoCall

(* the constructor at its first statement *)
InitCatalog ==
    /\ pc = "constructing"
    /\ segments = <<>>
    /\ annotations = <<>>
    /\ connections = <<>>
    /\ NoCall

(* what a call leaves behind; the run is followed up to the first          *)
(* exception that comes out of the region                                  *)
Outcome(o, a, r, e, out) ==
    /\ pc' = IF e = RegionError THEN "failed" ELSE "returned"
    /\ op' = o
    /\ args' = a
    /\ ret' = r
    /\ raised' = e
    /\ output' = out

(* __init__, outer loop: the next file becomes a Segment *)
NewSegment ==
    /\ pc = "constructing"
    /\ Len(segments) < MaxSegments
    /\ \E name \in SegNames : segments' = Append(segments, Segment(name))
    /\ UNCHANGED <<pc, annotations, connections, op, args, ret, raised, output, calls>>

(* __init__, inner loop: one annotation discovered in the newest segment   *)
(* is looked up in the catalog and inserted when new                       *)
DiscoverAnnotation ==
    /\ pc = "constructing"
    /\ Len(segments) > 0
    /\ Len(segments[Len(segments)].raw) < MaxDiscovered
    /\ \E name \in Names, term \in Terms :
          /\ segments' = [segments EXCEPT ![Len(segments)].raw = Append(@, <<name, term>>)]
          /\ annotations' = InsertAnnotation(annotations, name, term)
    /\ UNCHANGED <<pc, connections, op, args, ret, raised, output, calls>>

(* __init__, after the loops: the groups of every segment are reset in one *)
(* scope, then the callbacks are registered and the constructor returns;   *)
(* when a reset raises, so does the constructor and there is no Stitcher   *)
FinishConstruction(failures) ==
    /\ pc = "constructing"
    /\ \E fail \in failures :
          LET r == ResetAll(segments, annotations, fail)
          IN /\ segments' = r.segments
             /\ annotations' = IF fail = 0 THEN RegisterCallbacks(annotations) ELSE annotations
             /\ pc' = IF fail = 0 THEN "returned" ELSE "failed"
             /\ op' = "__init__"
             /\ raised' = r.raised
             /\ calls' = r.calls
    /\ UNCHANGED <<connections, args, ret, output>>

(* Annotation.set_category on a catalog annotation: the category is set    *)
(* and the registered callback is called with the annotation and its old   *)
(* category                                                                *)
SetCategory(cats, failures) ==
    /\ pc = "ready"
    /\ \E i \in DOMAIN annotations, c \in cats, fail \in failures :
          LET changed == [annotations EXCEPT ![i].category = c]
              h == AnnotationChange(segments, changed, i, annotations[i].category, fail)
          IN /\ annotations' = changed
             /\ IF annotations[i].callback
                THEN /\ segments' = h.segments
                     /\ calls' = h.calls
                     /\ Outcome("set_category", <<i, c>>, 0, h.raised, <<>>)
                ELSE /\ segments' = segments
                     /\ calls' = <<>>
                     /\ Outcome("set_category", <<i, c>>, 0, "none", <<>>)
    /\ UNCHANGED connections

(* Segment.set_translation on a segment of the Stitcher *)
SetTranslation ==
    /\ pc = "ready"
    /\ \E i \in DOMAIN segments, t \in Translations :
          /\ segments' = [segments EXCEPT ![i].translation = t]
          /\ Outcome("set_translation", <<i, t>>, 0, "none", <<>>)
    /\ calls' = <<>>
    /\ UNCHANGED <<annotations, connections>>

create_connection(lists) ==
    /\ pc = "ready"
    /\ \E segs \in lists :
          LET c == CreateConnection(connections, segs)
          IN /\ connections' = c.connections
             /\ Outcome("create_connection", segs, c.ret, "none", c.output)
    /\ calls' = <<>>
    /\ UNCHANGED <<segments, annotations>>

(* remove_connection of a listed connection (k) or of one not in the list  *)
(* (k = 0): list.remove raises ValueError                                  *)
remove_connection ==
    /\ pc = "ready"
    /\ \E k \in 0..Len(connections) :
          IF k = 0
          THEN /\ connections' = connections
               /\ Outcome("remove_connection", k, 0, "ValueError", <<>>)
          ELSE /\ connections' = RemoveAt(connections, k)
               /\ Outcome("remove_connection", k, 0, "none", <<>>)
    /\ calls' = <<>>
    /\ UNCHANGED <<segments, annotations>>

encode_settings ==
    /\ pc = "ready"
    /\ Outcome("encode_settings", <<>>, EncodeSettings(segments, annotations, connections),
               "none", <<>>)
    /\ calls' = <<>>
    /\ UNCHANGED <<segments, annotations, connections>>

decode_settings(inputs, failures) ==
    /\ pc = "ready"
    /\ \E s \in inputs, fail \in failures :
          LET d == DecodeSettings(segments, annotations, connections, s, fail)
          IN /\ segments' = d.segments
             /\ annotations' = d.annotations
             /\ connections' = d.connections
             /\ calls' = d.calls
             /\ Outcome("decode_settings", s, 0, d.raised, d.output)

(* the call is over: the caller has its result and makes the next call *)
Return ==
    /\ pc = "returned"
    /\ pc' = "ready"
    /\ op' = "none"
    /\ args' = <<>>
    /\ ret' = 0
    /\ raised' = "none"
    /\ output' = <<>>
    /\ calls' = <<>>
    /\ UNCHANGED <<segments, annotations, connections>>

(* no call into the region raises / any one of the calls of a batch may *)
NoFailure == {0}

AnyFailure == 0..Len(segments)

Next ==
    \/ SetCategory(EditCategories, NoFailure)
    \/ SetTranslation
    \/ create_connection(SeqsUpTo(DOMAIN segments, ConnectionArity + 1))
    \/ remove_connection
    \/ encode_settings
    \/ decode_settings(SettingsInputs(EncodeSettings(segments, annotations, connections)), NoFailure)
    \/ Return

Spec == Init /\ [][Next]_vars

(* construction step by step over any files, then the operations on a few  *)
(* inputs each                                                             *)
NextCatalog ==
    \/ NewSegment
    \/ DiscoverAnnotation
    \/ FinishConstruction(AnyFailure)
    \/ SetCategory(EditCategories, AnyFailure)
    \/ create_connection({segs \in [1..ConnectionArity -> DOMAIN segments] : segs[1] < segs[2]})
    \/ remove_connection
    \/ decode_settings({EncodeSettings(segments, annotations, connections)}, AnyFailure)
    \/ Return

SpecCatalog == InitCatalog /\ [][NextCatalog]_vars

(* ------------------------------- claims -------------------------------- *)
(* the unordered pair of segments a connection links *)
Pair(c) == Range(c.segments)

UniquePairs ==
    \A i, j \in DOMAIN connections : i # j => Pair(connections[i]) # Pair(connections[j])

DuplicateCreateRejected ==
    (/\ op' = "create_connection"
     /\ Len(args') = ConnectionArity
     /\ \E c \in DOMAIN connections : Pair(connections[c]) = Range(args'))
    => (ret' = 0 /\ connections' = connections)

(* C1: no two connections of the list link the same unordered pair of      *)
(* segments, and create_connection for a pair that is already linked, in   *)
(* either order, returns None and leaves the list as it was                *)
C1_ConnectionUniqueness == []UniquePairs /\ [][DuplicateCreateRejected]_vars

(* create_connection([B, A]) was called with [A, B] the one connection: it *)
(* returned None and there is still one connection                         *)
C1_Witness ==
    /\ pc = "returned"
    /\ op = "create_connection"
    /\ Len(args) = ConnectionArity
    /\ args[1] # args[2]
    /\ ret = 0
    /\ Len(connections) = 1
    /\ connections[1].segments = <<args[2], args[1]>>

(* C2: every connection of the list references exactly two distinct        *)
(* segments                                                                *)
C2_TwoDistinctSegments ==
    \A c \in DOMAIN connections :
        /\ Len(connections[c].segments) = ConnectionArity
        /\ connections[c].segments[1] # connections[c].segments[2]

(* the files the Stitcher was constructed over *)
InputFiles == [i \in DOMAIN segments |-> [name |-> segments[i].name, raw |-> segments[i].raw]]

(* decode_settings(encode_settings()) on a new Stitcher over the same files *)
Reloaded ==
    LET fresh == Stitcher(InputFiles)
    IN DecodeSettings(fresh.segments, fresh.annotations, <<>>,
                      EncodeSettings(segments, annotations, connections), 0)

SameSettings(r) ==
    /\ r.raised = "none"
    /\ Len(r.annotations) = Len(annotations)
    /\ \A i \in DOMAIN annotations :
          /\ r.annotations[i].name = annotations[i].name
          /\ r.annotations[i].term = annotations[i].term
          /\ r.annotations[i].category = annotations[i].category
    /\ Len(r.segments) = Len(segments)
    /\ \A i \in DOMAIN segments : r.segments[i].translation = segments[i].translation
    /\ Len(r.connections) = Len(connections)
    /\ \A i \in DOMAIN connections : Pair(r.connections[i]) = Pair(connections[i])

(* C3: whatever the edits made to a Stitcher, decoding its encoded         *)
(* settings into a new Stitcher over the same files completes and gives    *)
(* the same categories, translations and connected pairs, in order         *)
C3_RoundTrip == SameSettings(Reloaded)

(* every (name, term) some segment's raw region holds *)
DiscoveredPairs == UNION {Range(segments[i].raw) : i \in DOMAIN segments}

CatalogPairs == {<<annotations[i].name, annotations[i].term>> : i \in DOMAIN annotations}

(* C4: the catalog holds exactly one entry per distinct (name, term) found *)
(* in any segment: its length is the number of distinct pairs              *)
C4_CatalogDedup ==
    /\ CatalogPairs = DiscoveredPairs
    /\ Len(annotations) = Cardinality(DiscoveredPairs)

(* a constructed Stitcher whose two segments overlap: one pair found in    *)
(* both, another in one only                                               *)
C4_Witness ==
    /\ pc = "ready"
    /\ Len(segments) > 1
    /\ Range(segments[1].raw) \cap Range(segments[2].raw) # {}
    /\ Range(segments[1].raw) # Range(segments[2].raw)
    /\ Len(annotations) > 1

Sorted(catalog) ==
    \A i, j \in DOMAIN catalog : i < j => catalog[i].name <= catalog[j].name

(* C5: the catalog is non-decreasing by name after every insertion and in  *)
(* every state after construction                                          *)
C5_CatalogOrdered == Sorted(annotations)

(* where (segment, position in the segment's annotations) a catalog entry  *)
(* was found, and where it was found first                                 *)
Sightings(a) ==
    UNION {{<<i, k>> : k \in {n \in DOMAIN segments[i].raw :
                                   segments[i].raw[n] = <<a.name, a.term>>}} :
           i \in DOMAIN segments}

Earlier(p, q) == p[1] < q[1] \/ (p[1] = q[1] /\ p[2] < q[2])

FirstSeen(a) == CHOOSE p \in Sightings(a) : \A q \in Sightings(a) : p = q \/ Earlier(p, q)

SeenBefore(a, b) == Earlier(FirstSeen(a), FirstSeen(b))

(* the larger name was found first, the catalog has it last, and           *)
(* decode_settings has run on the constructed Stitcher                     *)
C5_Witness ==
    /\ pc = "returned"
    /\ op = "decode_settings"
    /\ Len(annotations) > 1
    /\ annotations[1].name < annotations[Len(annotations)].name
    /\ SeenBefore(annotations[Len(annotations)], annotations[1])

(* C6 as claimed: entries with the same name are in first-seen order *)
C6_FirstSeenOrder ==
    \A i, j \in DOMAIN annotations :
        (i < j /\ annotations[i].name = annotations[j].name)
        => SeenBefore(annotations[i], annotations[j])

(* C6 as amended: entries with the same name are in reverse first-seen     *)
(* order, the entry found later before the entry found earlier             *)
C6_LastSeenFirst ==
    \A i, j \in DOMAIN annotations :
        (i < j /\ annotations[i].name = annotations[j].name)
        => SeenBefore(annotations[j], annotations[i])

(* a constructed catalog with two entries of one name *)
C6_Witness ==
    /\ pc = "ready"
    /\ \E i, j \in DOMAIN annotations : i < j /\ annotations[i].name = annotations[j].name

(* a settings mapping in which annotations, segments or version is missing *)
(* or empty                                                                *)
MissingOrEmpty(s) ==
    \/ {"annotations", "segments", "version"} \ s.keys # {}
    \/ s.annotations = <<>>
    \/ s.segments = <<>>
    \/ s.version = 0

DecodeCompletes ==
    (/\ op' = "decode_settings"
     /\ ~MissingOrEmpty(args')
     /\ "connections" \in args'.keys
     /\ connections = <<>>)
    => raised' = "none"

(* C7: decode_settings of a mapping of the encode_settings shape with      *)
(* non-empty annotations, segments and version, on a Stitcher without      *)
(* connections, completes without raising                                  *)
C7_DecodeCompletes == [][DecodeCompletes]_vars

InvalidSettingsRejected ==
    (op' = "decode_settings" /\ MissingOrEmpty(args'))
    => (/\ raised' = "AssertionError"
        /\ UNCHANGED <<segments, annotations, connections>>)

(* C8: decode_settings of a mapping in which annotations, segments or      *)
(* version is missing or empty fails its assertion and changes no          *)
(* annotation, segment or connection                                       *)
C8_InvalidSettingsRejected == [][InvalidSettingsRejected]_vars

(* a rejected mapping whose first annotation record names the first live   *)
(* annotation and holds another category than the annotation still has     *)
C8_Witness ==
    /\ pc = "returned"
    /\ op = "decode_settings"
    /\ MissingOrEmpty(args)
    /\ raised = "AssertionError"
    /\ "annotations" \in args.keys
    /\ args.annotations # <<>>
    /\ args.annotations[1].name = annotations[1].name
    /\ args.annotations[1].term = annotations[1].term
    /\ args.annotations[1].category # CategoryName(annotations[1].category)

DecodeWithConnectionsRejected ==
    (op' = "decode_settings" /\ Len(connections) > 0)
    => (raised' = "AssertionError" /\ connections' = connections)

(* C9: decode_settings on a Stitcher that holds a connection fails its     *)
(* assertion and leaves the connection list as it was                      *)
C9_DecodeWithConnectionsRejected == [][DecodeWithConnectionsRejected]_vars

(* rejected although the mapping is complete and saves no connection *)
C9_Witness ==
    /\ pc = "returned"
    /\ op = "decode_settings"
    /\ ~MissingOrEmpty(args)
    /\ "connections" \in args.keys
    /\ args.connections = <<>>
    /\ raised = "AssertionError"
    /\ Len(connections) = 1

(* the saved records decode_settings reads: none when it rejects the mapping *)
SavedRecords(s, key) == IF MissingOrEmpty(s) THEN <<>> ELSE s[key]

LiveAuthoritative ==
    op' = "decode_settings" =>
        LET savedAnnotations == SavedRecords(args', "annotations")
            savedSegments == SavedRecords(args', "segments")
        IN /\ Len(annotations') = Len(annotations)
           /\ \A i \in DOMAIN annotations :
                 /\ annotations'[i].name = annotations[i].name
                 /\ annotations'[i].term = annotations[i].term
                 /\ \/ annotations'[i].category = annotations[i].category
                    \/ \E k \in DOMAIN savedAnnotations :
                          /\ savedAnnotations[k].name = annotations[i].name
                          /\ savedAnnotations[k].term = annotations[i].term
                          /\ CategoryName(annotations'[i].category) = savedAnnotations[k].category
           /\ Len(segments') = Len(segments)
           /\ \A i \in DOMAIN segments :
                 /\ segments'[i].name = segments[i].name
                 /\ \/ segments'[i].translation = segments[i].translation
                    \/ \E k \in DOMAIN savedSegments :
                          /\ savedSegments[k].name = segments[i].name
                          /\ segments'[i].translation = savedSegments[k].translation

(* C10: decode_settings gives a live annotation or segment a new category  *)
(* or translation only from a saved record with its (name, term) or name;  *)
(* a live object no saved record names keeps what it had, and no object is *)
(* added, removed or renamed                                               *)
C10_LiveAuthoritative == [][LiveAuthoritative]_vars

(* a completed decode in which one live annotation took a saved category,  *)
(* another, named by no record, kept its suggested one, and a saved record *)
(* named no live annotation                                                *)
C10_Witness ==
    /\ pc = "returned"
    /\ op = "decode_settings"
    /\ raised = "none"
    /\ \E i \in DOMAIN annotations :
          /\ annotations[i].category # SuggestedCategory(annotations[i].name)
          /\ \E k \in DOMAIN args.annotations :
                /\ args.annotations[k].name = annotations[i].name
                /\ args.annotations[k].term = annotations[i].term
    /\ \E i \in DOMAIN annotations :
          /\ annotations[i].category = SuggestedCategory(annotations[i].name)
          /\ \A k \in DOMAIN args.annotations :
                \/ args.annotations[k].name # annotations[i].name
                \/ args.annotations[k].term # annotations[i].term
    /\ \E k \in DOMAIN args.annotations : \A i \in DOMAIN annotations :
          \/ args.annotations[k].name # annotations[i].name
          \/ args.annotations[k].term # annotations[i].term

(* the live annotations and segments of the Stitcher that no record of the *)
(* decoded settings matches by its identity key                            *)
LiveAnnotationsNotSaved ==
    {i \in DOMAIN annotations :
        \A k \in DOMAIN args.annotations :
            \/ args.annotations[k].name # annotations[i].name
            \/ args.annotations[k].term # annotations[i].term}

LiveSegmentsNotSaved ==
    {i \in DOMAIN segments :
        \A k \in DOMAIN args.segments : args.segments[k].name # segments[i].name}

(* C11: when decode_settings has completed, a 'not found in settings;      *)
(* using defaults' line has been printed for every live annotation that no *)
(* saved record matches by (name, term) and for every live segment that no *)
(* saved record matches by name, whatever the saved lists are              *)
C11_DriftReported ==
    (pc = "returned" /\ op = "decode_settings" /\ raised = "none") =>
        /\ \A i \in LiveAnnotationsNotSaved :
              <<"annotation not found in settings; using defaults",
                annotations[i].name, annotations[i].term>> \in Range(output)
        /\ \A i \in LiveSegmentsNotSaved :
              <<"segment not found in settings; using defaults",
                segments[i].name>> \in Range(output)

(* a create_connection call that is to be rejected: the number of segments *)
(* is not two, or a connection between the two given segments exists       *)
ToBeRejected(segs) ==
    \/ Len(segs) # ConnectionArity
    \/ \E c \in DOMAIN connections : Pair(connections[c]) = Range(segs)

CreateRejected ==
    (op' = "create_connection" /\ ToBeRejected(args')) =>
        /\ ret' = 0
        /\ raised' = "none"
        /\ Len(output') >= 1
        /\ connections' = connections

(* C12: a rejected create_connection call (segment count other than two,   *)
(* or a connection already there for the unordered pair) returns None      *)
(* without raising, prints a diagnostic and leaves the connection list     *)
(* unchanged in content and order                                          *)
C12_CreateRejected == [][CreateRejected]_vars

C12_Witness ==
    /\ pc = "returned"
    /\ op = "create_connection"
    /\ Len(args) = ConnectionArity + 1
    /\ ret = 0
    /\ raised = "none"
    /\ output = <<MsgOnlyTwo>>
    /\ Len(connections) >= 1

CreateAppends ==
    (op' = "create_connection" /\ ret' # 0) =>
        /\ connections' = Append(connections, [segments |-> args'])
        /\ ret' = Len(connections')

RemoveListed ==
    (op' = "remove_connection" /\ args' \in DOMAIN connections) =>
        /\ raised' = "none"
        /\ Len(connections') = Len(connections) - 1
        /\ \A i \in DOMAIN connections' :
              connections'[i] = connections[IF i < args' THEN i ELSE i + 1]

RemoveUnlisted ==
    (op' = "remove_connection" /\ args' \notin DOMAIN connections) =>
        /\ raised' = "ValueError"
        /\ connections' = connections

OthersKeepConnections ==
    /\ op' = "decode_settings" =>
          /\ Len(connections') >= Len(connections)
          /\ SubSeq(connections', 1, Len(connections)) = connections
    /\ op' \notin {"create_connection", "remove_connection", "decode_settings"} =>
          connections' = connections

(* C13: the connection list is the surviving connections in creation       *)
(* order: a successful create_connection appends exactly one connection at *)
(* the end and returns it, remove_connection of a listed connection        *)
(* deletes exactly that one and keeps the order of the others, and         *)
(* remove_connection of a connection not in the list fails with a          *)
(* not-found error and leaves the list unchanged                           *)
C13_ConnectionListInOrder ==
    [][CreateAppends /\ RemoveListed /\ RemoveUnlisted /\ OthersKeepConnections]_vars

C13_Witness ==
    /\ pc = "returned"
    /\ op = "remove_connection"
    /\ args = 1
    /\ raised = "none"
    /\ Len(connections) >= 2

EncodedInOrder ==
    /\ ret'.version = Version
    /\ DOMAIN ret'.annotations = DOMAIN annotations
    /\ \A i \in DOMAIN annotations :
          /\ ret'.annotations[i].name = annotations[i].name
          /\ ret'.annotations[i].term = annotations[i].term
          /\ ret'.annotations[i].category = CategoryNames[annotations[i].category]
    /\ DOMAIN ret'.segments = DOMAIN segments
    /\ \A i \in DOMAIN segments :
          /\ ret'.segments[i].name = segments[i].name
          /\ ret'.segments[i].translation = segments[i].translation
    /\ DOMAIN ret'.connections = DOMAIN connections
    /\ \A i \in DOMAIN connections :
          /\ DOMAIN ret'.connections[i].segments = DOMAIN connections[i].segments
          /\ \A k \in DOMAIN connections[i].segments :
                ret'.connections[i].segments[k] = segments[connections[i].segments[k]].name

EncodePure ==
    op' = "encode_settings" =>
        /\ UNCHANGED <<segments, annotations, connections>>
        /\ raised' = "none"
        /\ output' = <<>>
        /\ calls' = <<>>
        /\ EncodedInOrder

(* C14: encode_settings has no side effect; it returns a mapping with one  *)
(* record for every live annotation, segment and connection, in catalog,   *)
(* segment and connection order, and the version number                    *)
C14_EncodePure == [][EncodePure]_vars

C14_Witness ==
    /\ pc = "returned"
    /\ op = "encode_settings"
    /\ Len(ret.annotations) >= 2
    /\ ret.annotations[1].category = CategoryNames[EXCLUDE]
    /\ ret.annotations[1].category # ret.annotations[2].category
    /\ Len(ret.connections) >= 1
    /\ \E i \in DOMAIN ret.segments : ret.segments[i].translation # 0

(* the identity of the catalog entries and of the segments, in list order *)
CatalogKeys(catalog) == [i \in DOMAIN catalog |-> <<catalog[i].name, catalog[i].term>>]

SegmentKeys(segs) == [i \in DOMAIN segs |-> <<segs[i].name, segs[i].raw>>]

CatalogFixed ==
    pc # "constructing" =>
        /\ CatalogKeys(annotations') = CatalogKeys(annotations)
        /\ SegmentKeys(segments') = SegmentKeys(segments)

(* C15: once construction is over, the set and order of the (name, term)   *)
(* entries of the catalog and the sequence of segments are fixed: no       *)
(* operation (decode_settings, encode_settings, create_connection,         *)
(* remove_connection, the category-change handler) inserts, removes or     *)
(* reorders a catalog annotation or a segment                              *)
C15_CatalogFixed == [][CatalogFixed]_vars

C15_Witness ==
    /\ pc = "returned"
    /\ op = "decode_settings"
    /\ raised = "none"
    /\ Len(annotations) >= 2
    /\ LiveAnnotationsNotSaved # {}
    /\ \E k \in DOMAIN args.annotations :
          \A i \in DOMAIN annotations :
              <<args.annotations[k].name, args.annotations[k].term>> # CatalogKeys(annotations)[i]

HandlersRegistered ==
    pc \in {"ready", "returned"} => \A i \in DOMAIN annotations : annotations[i].callback

(* the group entries of a segment that are not about catalog annotation a *)
OtherGroups(seg, a) == {g \in seg.groups : <<g[1], g[2]>> # <<a.name, a.term>>}

HandlerPropagates ==
    (op' = "set_category" /\ raised' = "none") =>
        LET a == args'[1]
            old == annotations[a].category
        IN /\ Len(calls') = Len(segments) + 2
           /\ \A i \in DOMAIN segments : calls'[i + 1] = <<"update", i, a, old>>
           /\ \A i \in DOMAIN segments :
                 /\ OtherGroups(segments'[i], annotations[a]) = OtherGroups(segments[i], annotations[a])
                 /\ <<annotations[a].name, annotations[a].term>> \in Range(segments[i].raw) =>
                       /\ <<annotations[a].name, annotations[a].term, args'[2]>>
                              \in segments'[i].groups
                       /\ old # args'[2] =>
                              <<annotations[a].name, annotations[a].term, old>>
                                 \notin segments'[i].groups
           /\ \A i \in DOMAIN annotations : i # a => annotations'[i] = annotations[i]
           /\ connections' = connections

(* C16: once construction has finished every catalog annotation has the    *)
(* Stitcher's handler registered, and each notification (annotation,       *)
(* old_category) that returns has made the handler call                    *)
(* update_annotation_category exactly once on every segment, in segment    *)
(* order, with that annotation and that old category, touching no other    *)
(* annotation's membership and no connection                               *)
C16_ChangePropagates == []HandlersRegistered /\ [][HandlerPropagates]_vars

C16_Witness ==
    /\ pc = "returned"
    /\ op = "set_category"
    /\ raised = "none"
    /\ Len(segments) >= 2
    /\ Len(annotations) >= 2
    /\ Len(connections) >= 1
    /\ calls[2] = <<"update", 1, args[1], SuggestedCategory(annotations[args[1]].name)>>
    /\ annotations[args[1]].category = EXCLUDE
    /\ \E g \in segments[1].groups : g[3] = EXCLUDE
    /\ \E g \in segments[1].groups : g[3] # EXCLUDE

(* the log of a batch: the scope is opened once, every call on a segment   *)
(* comes after the opening and before the one closing, which is last       *)
InOneScope(log) ==
    /\ Len(log) >= 2
    /\ log[1] = <<"begin">>
    /\ log[Len(log)] = <<"end">>
    /\ \A i \in 2..(Len(log) - 1) :
          /\ log[i][1] \in {"reset", "update"}
          /\ log[i][2] = i - 1

BatchesScoped ==
    /\ calls # <<>> => InOneScope(calls)
    /\ (calls # <<>> /\ raised = "none") => Len(calls) = Len(segments) + 2
    /\ (op \in {"__init__", "set_category"} \/ raised = RegionError) => calls # <<>>

GroupsChangeInScope ==
    (\E i \in DOMAIN segments : i \in DOMAIN segments' /\ segments'[i].groups # segments[i].groups)
        => (calls' # <<>> /\ InOneScope(calls'))

LastOf(indices) == CHOOSE i \in indices : \A j \in indices : j <= i

(* the records of a saved list that name live annotation i, live segment i *)
RecordsOfAnnotation(saved, i) ==
    {k \in DOMAIN saved : saved[k].name = annotations[i].name /\ saved[k].term = annotations[i].term}

RecordsOfSegment(saved, i) == {k \in DOMAIN saved : saved[k].name = segments[i].name}

FailsAfterMerge ==
    (op' = "decode_settings" /\ ~MissingOrEmpty(args') /\ Len(connections) > 0) =>
        /\ raised' = "AssertionError"
        /\ connections' = connections
        /\ Len(calls') = Len(segments) + 2
        /\ \A i \in DOMAIN segments : calls'[i + 1] = <<"reset", i>>
        /\ \A i \in DOMAIN annotations :
              RecordsOfAnnotation(args'.annotations, i) # {} =>
                  CategoryNames[annotations'[i].category] =
                      args'.annotations[LastOf(RecordsOfAnnotation(args'.annotations, i))].category
        /\ \A i \in DOMAIN segments :
              (/\ RecordsOfSegment(args'.segments, i) # {}
               /\ \A j \in 1..(i - 1) : segments[j].name # segments[i].name) =>
                  segments'[i].translation =
                      args'.segments[LastOf(RecordsOfSegment(args'.segments, i))].translation

(* C18: decode_settings tests that there is no connection only after the   *)
(* annotation merge, the segment merge and the reset of the groups; when   *)
(* it fails because a connection exists, the connection list is unchanged  *)
(* but every matched live annotation and segment already carries the saved *)
(* values                                                                  *)
C18_FailsAfterMerge == [][FailsAfterMerge]_vars

(* a failed decode after which every annotation and segment holds the      *)
(* edited values of the settings                                           *)
C18_Witness ==
    /\ pc = "returned"
    /\ op = "decode_settings"
    /\ ~MissingOrEmpty(args)
    /\ raised = "AssertionError"
    /\ Len(connections) >= 1
    /\ calls # <<>>
    /\ \A i \in DOMAIN annotations :
          /\ RecordsOfAnnotation(args.annotations, i) # {}
          /\ annotations[i].category = EXCLUDE
    /\ \A i \in DOMAIN segments : segments[i].translation = MaxTranslation
    /\ \A g \in segments[1].groups : g[3] = EXCLUDE

(* segment i comes after a live segment of the same name *)
Shadowed(i) == \E j \in 1..(i - 1) : segments[j].name = segments[i].name

FirstOfNameOnly ==
    op' = "decode_settings" =>
        /\ \A i \in DOMAIN segments :
              Shadowed(i) =>
                  /\ segments'[i].translation = segments[i].translation
                  /\ \A c \in (Len(connections) + 1)..Len(connections') :
                        i \notin Range(connections'[c].segments)
        /\ ~MissingOrEmpty(args') =>
              Cardinality({i \in DOMAIN segments :
                              segments'[i].translation # segments[i].translation})
                  <= Cardinality({args'.segments[k].name : k \in DOMAIN args'.segments})

(* C19: segment names are not checked for uniqueness and a name is always  *)
(* resolved to the first live segment that has it: in decode_settings a    *)
(* saved segment record updates at most one live segment, the first of     *)
(* that name, every name of a saved connection record resolves to at most  *)
(* one live segment, and a later segment of the same name is out of reach  *)
(* of the settings                                                         *)
C19_FirstOfNameOnly == [][FirstOfNameOnly]_vars

C19_Witness ==
    /\ pc = "returned"
    /\ op = "decode_settings"
    /\ raised = "none"
    /\ Len(segments) = 2
    /\ segments[1].name = segments[2].name
    /\ Len(args.segments) = 2
    /\ \A k \in DOMAIN args.segments :
          /\ args.segments[k].name = segments[1].name
          /\ args.segments[k].translation = MaxTranslation
    /\ segments[1].translation = MaxTranslation
    /\ segments[2].translation = 0

==========================================================================
